---- MODULE Spec2Model ----
(***************************************************************************)
(* A model of gitmanager's /create-pr endpoint (src/main.py): the request   *)
(* model PRRequest, the three pipeline stages run_git_commands,             *)
(* generate_pr_content and create_github_pull_request, and the external     *)
(* systems they call (the git working tree, the language-model endpoint,    *)
(* the hosting service).  Each worker thread of the server handles one      *)
(* request; every subprocess call and every HTTP call is one step.          *)
(***************************************************************************)
EXTENDS Integers, Sequences, FiniteSets, TLC

VARIABLES
    environ,            \* os.environ as read at import time (env_default)
    repo,               \* the local repository: branch tips, parents, patches
    HEAD,               \* the branch the shared working tree has checked out
    pc,                 \* per thread: the statement the request is at
    body,               \* per thread: the JSON body of the request
    request,            \* per thread: the PRRequest built from the body
    local_branch,       \* per thread: run_git_commands' local_branch
    target_commit,      \* per thread: run_git_commands' target_commit
    changes_diff,       \* per thread: run_git_commands' changes_diff
    commit_summary,     \* per thread: run_git_commands' commit_summary
    git_data,           \* per thread: create_pr_endpoint's git_data
    generated_content,  \* per thread: create_pr_endpoint's generated_content
    response,           \* per thread: what the caller receives
    calls,              \* per thread: the external calls made, in order
    overlapped          \* per thread: another request was in flight meanwhile

vars == <<environ, repo, HEAD, pc, body, request, local_branch, target_commit,
          changes_diff, commit_summary, git_data,
          generated_content, response, calls, overlapped>>

-----------------------------------------------------------------------------
(* Bounds of the model.                                                     *)

\* commits on the base branch "dev"
BaseLen == 2
\* SpecSeq: most commits a feature branch is ahead of its fork point
MaxAhead == 20
\* SpecSeq: largest commit-count bound a request names
MaxN == 21
\* Spec (two requests in flight): most commits ahead, largest commit count
ConcAhead == 2
ConcN == 2
\* SpecCtx: most commits ahead
CtxAhead == 2

Threads == {"t1", "t2"}

Max(a, b) == IF a >= b THEN a ELSE b
Min(a, b) == IF a <= b THEN a ELSE b
Range(s) == {s[i] : i \in 1..Len(s)}

-----------------------------------------------------------------------------
(* Values.                                                                  *)

\* the empty string a command prints when it lists no commit
NoCommit == 0
\* a JSON body that omits a field; Python's None and Ellipsis
Absent == "<absent>"
None == "<None>"
Ellipsis == "<...>"
\* an omitted n_commits
NoCount == -1

\* Branch names are sequences of their "/"-separated parts:
\* "origin/feature-a" is <<"origin", "feature-a">>.
Dev == <<"dev">>
FeatureA == <<"feature-a">>
FeatureB == <<"feature-b">>
Missing == <<"no-such-branch">>
Remote(b) == <<"origin">> \o b

-----------------------------------------------------------------------------
(* The repository the server runs in.  Commits are numbered in commit       *)
(* order; "dev" holds 1..BaseLen, feature-a 101.., feature-b 201...  A      *)
(* feature branch forks from the tip of dev, or (orphan) has a root commit  *)
(* of its own.  Each commit carries the length and the kind of the text     *)
(* its patch adds to a diff.                                                *)

BranchCommits(first, m) == {first + i : i \in 1..m}

\* the bytes of one commit's patch: ASCII, two-byte UTF-8 characters
\* (lead byte "L", continuation byte "C"), or Latin-1 text that is no UTF-8
PatchBytes(c, patch) ==
    [i \in 1..patch.len |->
        [c |-> c,
         b |-> CASE patch.kind = "ascii"  -> "a"
                 [] patch.kind = "utf8"   -> IF i % 2 = 0 THEN "C"
                                             ELSE IF i = patch.len THEN "a" ELSE "L"
                 [] patch.kind = "latin1" -> IF i = 1 THEN "C" ELSE "a"]]

MkRepo(mA, mB, orphanA, len, kind) ==
    LET commits == (1..BaseLen) \cup BranchCommits(100, mA) \cup BranchCommits(200, mB)
    IN  [tips   |-> (Dev :> BaseLen)
                    @@ (FeatureA :> IF mA = 0 THEN BaseLen ELSE 100 + mA)
                    @@ (FeatureB :> IF mB = 0 THEN BaseLen ELSE 200 + mB),
         parent |-> [c \in commits |->
                        IF c = 1 THEN NoCommit
                        ELSE IF c = 101 THEN (IF orphanA THEN NoCommit ELSE BaseLen)
                        ELSE IF c = 201 THEN BaseLen
                        ELSE c - 1],
         patch  |-> [c \in commits |-> [len |-> len, kind |-> kind]]]

RECURSIVE Ancestors(_, _)
\* the commits reachable from c, c included
Ancestors(r, c) ==
    IF c = NoCommit THEN {} ELSE {c} \cup Ancestors(r, r.parent[c])

\* a set of commits, oldest first
Ordered(S) ==
    [i \in 1..Cardinality(S) |->
        CHOOSE x \in S : Cardinality({y \in S : y < x}) = i - 1]

Reverse(s) == [i \in 1..Len(s) |-> s[Len(s) + 1 - i]]

RECURSIVE Concat(_)
Concat(ss) == IF ss = << >> THEN << >> ELSE Head(ss) \o Concat(Tail(ss))

-----------------------------------------------------------------------------
(* The commands run_git_commands runs.  Each yields an exit status and the  *)
(* bytes (or lines) it printed; `ok` is FALSE when the command fails for a  *)
(* reason outside the repository's contents (network, lock, disk).          *)

Failed == [status |-> 128, out |-> << >>]
Printed(out) == [status |-> 0, out |-> out]

\* git fetch origin
GitFetchCmd(ok) == IF ok THEN Printed(<< >>) ELSE Failed

\* git checkout <branch>: fails when no such branch exists
GitCheckoutCmd(r, branch, ok) ==
    IF ok /\ branch \in DOMAIN r.tips THEN Printed(<< >>) ELSE Failed

\* git rev-list --reverse <base>..HEAD: one line per commit, oldest first.
\* With --reverse git walks the whole range before it prints, so a failure
\* (an unknown base included) leaves the output empty.
GitRevListReverse(r, base, head, ok) ==
    IF ok /\ base \in DOMAIN r.tips
    THEN Printed(Ordered(Ancestors(r, r.tips[head]) \ Ancestors(r, r.tips[base])))
    ELSE Failed

\* faulty variant: the first n lines, as head -n <n> prints
ShellTailFromTop(lines, n) == SubSeq(lines, 1, Min(n, Len(lines)))

\* tail -n <n>: the last n lines
ShellTail(lines, n) == SubSeq(lines, Len(lines) - Min(n, Len(lines)) + 1, Len(lines))

\* head -n <n>: the first n lines
ShellHead(lines, n) == SubSeq(lines, 1, Min(n, Len(lines)))

\* cmd1 | cmd2 | cmd3 under sh: the exit status is that of the last command
RevListPipeline(r, base, head, n, ok) ==
    Printed(ShellHead(ShellTail(GitRevListReverse(r, base, head, ok).out, n), 1))

\* <commit>^ : the first parent
FirstParent(r, c) == IF c \in DOMAIN r.parent THEN r.parent[c] ELSE NoCommit

\* the commits whose patches separate the trees of two commits
DiffCommits(r, from, to) ==
    (Ancestors(r, to) \ Ancestors(r, from)) \cup (Ancestors(r, from) \ Ancestors(r, to))

\* git diff <commit>^..HEAD: fails when <commit>^ names nothing
GitDiffCmd(r, commit, head, ok) ==
    IF ok /\ FirstParent(r, commit) # NoCommit
    THEN LET cs == Ordered(DiffCommits(r, FirstParent(r, commit), r.tips[head]))
         IN  Printed(Concat([i \in 1..Len(cs) |-> PatchBytes(cs[i], r.patch[cs[i]])]))
    ELSE Failed

\* git log <base>..HEAD -n <n> --pretty=format:"%h %s" --name-status:
\* an entry per commit, newest first, at most n of them
GitLogCmd(r, base, head, n, ok) ==
    IF ok /\ base \in DOMAIN r.tips
    THEN LET cs == Reverse(Ordered(Ancestors(r, r.tips[head]) \ Ancestors(r, r.tips[base])))
         IN  Printed([i \in 1..Min(n, Len(cs)) |-> [c |-> cs[i], b |-> "a"]])
    ELSE Failed

\* git diff --stat <commit>^..HEAD: a line per changed file (one file per
\* commit with a non-empty patch)
GitDiffStatCmd(r, commit, head, ok) ==
    IF ok /\ FirstParent(r, commit) # NoCommit
    THEN LET cs == Ordered({c \in DiffCommits(r, FirstParent(r, commit), r.tips[head]) :
                              r.patch[c].len > 0})
         IN  Printed([i \in 1..Len(cs) |-> [c |-> cs[i], b |-> "a"]])
    ELSE Failed

\* faulty variant: the exit status is not checked
RaisesNever(result) == FALSE

\* subprocess.check_output raises CalledProcessError on a non-zero status
Raises(result) == result.status # 0

\* bytes.decode(): UTF-8 to characters; a two-byte sequence is one character,
\* a stray lead or continuation byte raises UnicodeDecodeError
Decodable(bytes) ==
    \A i \in 1..Len(bytes) :
        /\ bytes[i].b = "L" => (i < Len(bytes) /\ bytes[i + 1].b = "C")
        /\ bytes[i].b = "C" => (i > 1 /\ bytes[i - 1].b = "L")

Decode(bytes) ==
    LET starts == SelectSeq([i \in 1..Len(bytes) |-> i], LAMBDA i : bytes[i].b # "C")
    IN  [j \in 1..Len(starts) |->
            [c  |-> bytes[starts[j]].c,
             ch |-> IF bytes[starts[j]].b = "L" THEN "U" ELSE "a"]]

\* .decode().strip() of the pipeline's single line: the commit, or ""
StripLine(lines) == IF lines = << >> THEN NoCommit ELSE lines[1]

\* the f-string's literal parts
Literal(s) == [c |-> NoCommit, ch |-> s]

\* faulty variant: the slice keeps one character too many
SliceOneMore(text, k) == SubSeq(text, 1, Min(k + 1, Len(text)))

\* changes_diff[:10000]
DIFF_LIMIT == 10000
Slice(text, k) == SubSeq(text, 1, Min(k, Len(text)))

\* full_context
FullContext(summary, stat, diff) ==
    <<Literal("\n=== COMMIT SUMMARY ===\n")>> \o summary
    \o <<Literal("\n\n=== CHANGES STAT ===\n")>> \o stat
    \o <<Literal("\n\n=== GIT DIFF (Detail) ===\n")>> \o Slice(diff, DIFF_LIMIT)
    \o <<Literal(" \n")>>

-----------------------------------------------------------------------------
(* PRRequest: the request model and its defaults.                           *)

\* env_default(key, default_val); an unset or empty variable reads ""
env_default(key, default_val) ==
    LET val == environ[key]
    IN  IF val # "" THEN val
        ELSE IF default_val # None THEN default_val
        ELSE Ellipsis

\* n_commits: int = Field(default=os.getenv("GIT_N_COMMITS", 14)), with
\* GIT_N_COMMITS unset
DEFAULT_N_COMMITS == 14

\* Literal["gemini", "gpt"]
LlmProviders == {"gemini", "gpt"}

\* A pydantic field: a supplied value is validated against the field's
\* type; an omitted one takes the default as it is, and is an error when the
\* default is Ellipsis (a required field).
FieldValue(supplied, default, allowed) ==
    IF supplied # Absent
    THEN [ok |-> supplied \in allowed, value |-> supplied]
    ELSE [ok |-> default # Ellipsis, value |-> default]

llm_provider_field(b) ==
    FieldValue(b.llm_provider, env_default("LLM_PROVIDER", None), LlmProviders)

llm_model_field(b) ==
    FieldValue(b.llm_model, env_default("LLM_MODEL", "gemini-2.0-flash-lite"),
               {b.llm_model})

n_commits_field(b) ==
    IF b.n_commits # NoCount THEN b.n_commits ELSE DEFAULT_N_COMMITS

\* PRRequest(**body)
PRRequest(b) ==
    [ok           |-> llm_provider_field(b).ok /\ llm_model_field(b).ok,
     branch       |-> b.branch,
     base_branch  |-> b.base_branch,
     n_commits    |-> n_commits_field(b),
     llm_provider |-> llm_provider_field(b).value,
     llm_model    |-> llm_model_field(b).value]

NoRequest ==
    [ok |-> FALSE, branch |-> << >>, base_branch |-> << >>, n_commits |-> 0,
     llm_provider |-> None, llm_model |-> None]

NoBody ==
    [sent |-> FALSE, branch |-> << >>, base_branch |-> << >>, n_commits |-> NoCount,
     llm_provider |-> Absent, llm_model |-> Absent]

-----------------------------------------------------------------------------
(* What the caller receives.                                                *)

NoPayload == [status |-> None, pr_url |-> None, pr_number |-> None]

NoResponse == [kind |-> "none", status |-> 0, detail |-> << >>, payload |-> NoPayload]

\* raise HTTPException(status_code=..., detail=...)
HTTPException(status_code, detail) ==
    [kind |-> "HTTPException", status |-> status_code, detail |-> detail,
     payload |-> NoPayload]

\* an exception no handler catches: the server answers 500 without a detail
Unhandled(exc) ==
    [kind |-> "unhandled", status |-> 500, detail |-> <<exc>>, payload |-> NoPayload]

\* the body does not validate: FastAPI answers 422 before the endpoint runs
RequestValidationError ==
    [kind |-> "validation", status |-> 422, detail |-> <<"validation error">>,
     payload |-> NoPayload]

\* the endpoint returned
Returned(payload) ==
    [kind |-> "return", status |-> 200, detail |-> << >>, payload |-> payload]

-----------------------------------------------------------------------------
(* JSON documents, and the subscripting the code does on them.              *)

Obj(f) == [t |-> "obj", v |-> f]
Arr(s) == [t |-> "arr", v |-> s]
Str(x) == [t |-> "str", v |-> x]
NoFields == [k \in {} |-> Str("")]
Key(k) == [key |-> k]
Idx(i) == [idx |-> i]

\* the bodies an upstream service answers with
ParseJson(text) ==
    CASE text = "gpt completion" ->
            Obj("choices" :> Arr(<<Obj("message" :> Obj("content" :> Str("gpt draft")))>>))
      [] text = "gemini completion" ->
            Obj("candidates" :> Arr(<<Obj("content" :>
                Obj("parts" :> Arr(<<Obj("text" :> Str("gemini draft"))>>)))>>))
      [] text = "{}" -> Obj(NoFields)
      [] text = "empty lists" ->
            Obj(("choices" :> Arr(<< >>)) @@ ("candidates" :> Arr(<< >>)))
      [] text = "empty entries" ->
            Obj(("choices" :> Arr(<<Obj("message" :> Obj(NoFields))>>))
                @@ ("candidates" :> Arr(<<Obj("content" :> Obj("parts" :> Arr(<< >>)))>>)))
      [] text = "pull request" ->
            Obj(("html_url" :> Str("https://github.com/o/r/pull/7")) @@ ("number" :> Str("7")))
      [] text = "[]" -> Arr(<< >>)
      [] OTHER -> Str(text)

\* response.json() raises on a body that is no JSON
IsJson(text) == text \notin {"<html>", "Not Found", "quota exceeded"}

\* j[k]: the exception it raises, or ""
SubscriptError(j, k) ==
    IF "key" \in DOMAIN k
    THEN CASE j.t = "obj" -> IF k.key \in DOMAIN j.v THEN "" ELSE "KeyError"
           [] OTHER -> "TypeError"
    ELSE CASE j.t = "arr" -> IF k.idx + 1 \in DOMAIN j.v THEN "" ELSE "IndexError"
           [] j.t = "obj" -> "KeyError"
           [] OTHER -> "IndexError"

Subscript(j, k) == IF "key" \in DOMAIN k THEN j.v[k.key] ELSE j.v[k.idx + 1]

RECURSIVE PathError(_, _)
\* j[p1][p2]...: the first exception raised, or ""
PathError(j, path) ==
    IF path = << >> THEN ""
    ELSE IF SubscriptError(j, Head(path)) # "" THEN SubscriptError(j, Head(path))
    ELSE PathError(Subscript(j, Head(path)), Tail(path))

RECURSIVE PathValue(_, _)
PathValue(j, path) ==
    IF path = << >> THEN j ELSE PathValue(Subscript(j, Head(path)), Tail(path))

\* response.json()["choices"][0]["message"]["content"]
GptPath == <<Key("choices"), Idx(0), Key("message"), Key("content")>>
\* response.json()["candidates"][0]["content"]["parts"][0]["text"]
GeminiPath == <<Key("candidates"), Idx(0), Key("content"), Key("parts"), Idx(0), Key("text")>>

\* dict.get(key): the value, or None
DictGet(j, k) == IF k \in DOMAIN j.v THEN j.v[k].v ELSE None

\* what the language-model endpoint may answer
LlmResponses ==
    [status : {200}, text : {"gpt completion", "gemini completion", "{}",
                             "empty lists", "empty entries", "<html>"}]
    \cup [status : {201, 204, 302, 400, 429, 500, 503}, text : {"quota exceeded"}]

\* what the hosting service may answer
GithubResponses ==
    [status : {201}, text : {"pull request", "{}", "[]", "<html>"}]
    \cup [status : {200, 202, 302, 401, 404, 422, 500}, text : {"Not Found", "{}"}]

-----------------------------------------------------------------------------
(* The endpoint, one step per external call.                                *)

InFlight(t) == pc[t] \notin {"idle", "done"}

\* an external call: the command, the branch checked out when it ran, the
\* commit it names, and the exit status or HTTP status and body it got
Call(cmd, rev, status, text) ==
    [cmd |-> cmd, head |-> HEAD, rev |-> rev, status |-> status, text |-> text]

Record(t, cmd, rev, status, text) ==
    calls' = [calls EXCEPT ![t] = Append(@, Call(cmd, rev, status, text))]

\* the request ends: the caller receives resp
Respond(t, resp) ==
    /\ response' = [response EXCEPT ![t] = resp]
    /\ pc' = [pc EXCEPT ![t] = "done"]

Goto(t, label) ==
    /\ pc' = [pc EXCEPT ![t] = label]
    /\ UNCHANGED response

\* faulty variant: a failed command reported as a bad gateway
CalledProcessErrorAs502(cmd) == HTTPException(502, <<"Git command failed: ", cmd>>)

\* except subprocess.CalledProcessError as e
CalledProcessError(cmd) == HTTPException(500, <<"Git command failed: ", cmd>>)

\* except Exception as e
OtherException(msg) == HTTPException(500, <<msg>>)

\* FastAPI builds PRRequest from the body and calls create_pr_endpoint, or
\* answers 422
Receive(t) ==
    /\ pc[t] = "idle"
    /\ body[t].sent
    /\ IF PRRequest(body[t]).ok
       THEN /\ request' = [request EXCEPT ![t] = PRRequest(body[t])]
            /\ Goto(t, "fetch")
            /\ overlapped' =
                 [u \in Threads |->
                    IF \E v \in Threads \ {t} : InFlight(v)
                    THEN overlapped[u] \/ u = t \/ InFlight(u)
                    ELSE overlapped[u]]
       ELSE /\ Respond(t, RequestValidationError)
            /\ UNCHANGED <<request, overlapped>>
    /\ UNCHANGED <<environ, repo, HEAD, body, local_branch, target_commit,
                   changes_diff, commit_summary, git_data,
                   generated_content, calls>>

\* subprocess.check_output("git fetch origin", shell=True)
GitFetch(t) ==
    /\ pc[t] = "fetch"
    /\ \E ok \in BOOLEAN :
         /\ Record(t, "git fetch origin", NoCommit, GitFetchCmd(ok).status, "")
         /\ IF Raises(GitFetchCmd(ok))
            THEN Respond(t, CalledProcessError("git fetch origin"))
            ELSE Goto(t, "checkout")
    /\ UNCHANGED <<environ, repo, HEAD, body, request, local_branch, target_commit,
                   changes_diff, commit_summary, git_data,
                   generated_content, overlapped>>

\* if local_branch.startswith("origin/"): local_branch = local_branch[len("origin/"):]
StripOrigin(branch) ==
    IF Len(branch) >= 2 /\ branch[1] = "origin" THEN Tail(branch) ELSE branch

\* faulty variant: the working tree stays where it was
CheckedOutNothing(head, branch, result) == head

\* the branch checked out once git checkout <branch> has run
CheckedOut(head, branch, result) == IF Raises(result) THEN head ELSE branch

\* subprocess.check_output(f"git checkout {local_branch}", shell=True)
GitCheckout(t) ==
    /\ pc[t] = "checkout"
    /\ local_branch' = [local_branch EXCEPT ![t] = StripOrigin(request[t].branch)]
    /\ \E ok \in BOOLEAN :
         LET res == GitCheckoutCmd(repo, local_branch'[t], ok)
         IN  /\ Record(t, "git checkout", NoCommit, res.status, "")
             /\ HEAD' = CheckedOut(HEAD, local_branch'[t], res)
             /\ IF Raises(res)
                   THEN Respond(t, CalledProcessError("git checkout"))
                   ELSE Goto(t, "revlist")
    /\ UNCHANGED <<environ, repo, body, request, target_commit,
                   changes_diff, commit_summary, git_data,
                   generated_content, overlapped>>

\* `not target_commit`: the string is empty
NotTruthy(commit) == commit = NoCommit

\* target_commit = subprocess.check_output(rev_list_cmd, shell=True).decode().strip()
\* if not target_commit: raise Exception(...)
GitRevList(t) ==
    /\ pc[t] = "revlist"
    /\ \E ok \in BOOLEAN :
         LET res == RevListPipeline(repo, request[t].base_branch, HEAD,
                                    request[t].n_commits, ok)
         IN  /\ Record(t, "git rev-list", NoCommit,
                       GitRevListReverse(repo, request[t].base_branch, HEAD, ok).status, "")
             /\ IF Raises(res)
                   THEN /\ Respond(t, CalledProcessError("git rev-list"))
                        /\ UNCHANGED target_commit
                   ELSE /\ target_commit' = [target_commit EXCEPT ![t] = StripLine(res.out)]
                        /\ IF NotTruthy(target_commit'[t])
                           THEN Respond(t, OtherException("no changes found or invalid commit range"))
                           ELSE Goto(t, "diff")
    /\ UNCHANGED <<environ, repo, HEAD, body, request, local_branch,
                   changes_diff, commit_summary, git_data,
                   generated_content, overlapped>>

\* changes_diff = subprocess.check_output(diff_cmd, shell=True).decode()
GitDiff(t) ==
    /\ pc[t] = "diff"
    /\ \E ok \in BOOLEAN :
         LET res == GitDiffCmd(repo, target_commit[t], HEAD, ok)
         IN  /\ Record(t, "git diff", target_commit[t], res.status, "")
             /\ IF Raises(res)
                THEN /\ Respond(t, CalledProcessError("git diff"))
                     /\ UNCHANGED changes_diff
                ELSE IF ~Decodable(res.out)
                THEN /\ Respond(t, OtherException("UnicodeDecodeError"))
                     /\ UNCHANGED changes_diff
                ELSE /\ changes_diff' = [changes_diff EXCEPT ![t] = Decode(res.out)]
                     /\ Goto(t, "log")
    /\ UNCHANGED <<environ, repo, HEAD, body, request, local_branch, target_commit,
                   commit_summary, git_data,
                   generated_content, overlapped>>

\* commit_summary = subprocess.check_output(log_cmd, shell=True).decode()
GitLog(t) ==
    /\ pc[t] = "log"
    /\ \E ok \in BOOLEAN :
         LET res == GitLogCmd(repo, request[t].base_branch, HEAD,
                              request[t].n_commits, ok)
         IN  /\ Record(t, "git log", NoCommit, res.status, "")
             /\ IF Raises(res)
                THEN /\ Respond(t, CalledProcessError("git log"))
                     /\ changes_diff' = [changes_diff EXCEPT ![t] = << >>]
                     /\ UNCHANGED commit_summary
                ELSE IF ~Decodable(res.out)
                THEN /\ Respond(t, OtherException("UnicodeDecodeError"))
                     /\ changes_diff' = [changes_diff EXCEPT ![t] = << >>]
                     /\ UNCHANGED commit_summary
                ELSE /\ commit_summary' = [commit_summary EXCEPT ![t] = Decode(res.out)]
                     /\ Goto(t, "stat")
                     /\ UNCHANGED changes_diff
    /\ UNCHANGED <<environ, repo, HEAD, body, request, local_branch, target_commit,
                   git_data, generated_content, overlapped>>

\* changes_stat = subprocess.check_output(stat_cmd, shell=True).decode()
\* return full_context, which create_pr_endpoint binds to git_data; the
\* texts run_git_commands held end with the call
GitDiffStat(t) ==
    /\ pc[t] = "stat"
    /\ \E ok \in BOOLEAN :
         LET res == GitDiffStatCmd(repo, target_commit[t], HEAD, ok)
         IN  /\ Record(t, "git diff --stat", target_commit[t], res.status, "")
             /\ IF Raises(res)
                THEN /\ Respond(t, CalledProcessError("git diff --stat"))
                     /\ UNCHANGED git_data
                ELSE IF ~Decodable(res.out)
                THEN /\ Respond(t, OtherException("UnicodeDecodeError"))
                     /\ UNCHANGED git_data
                ELSE /\ git_data' = [git_data EXCEPT ![t] =
                           FullContext(commit_summary[t], Decode(res.out), changes_diff[t])]
                     /\ Goto(t, "generate")
    /\ changes_diff' = [changes_diff EXCEPT ![t] = << >>]
    /\ commit_summary' = [commit_summary EXCEPT ![t] = << >>]
    /\ UNCHANGED <<environ, repo, HEAD, body, request, local_branch, target_commit,
                   generated_content, overlapped>>

-----------------------------------------------------------------------------
(* generate_pr_content and create_github_pull_request, as functions of the  *)
(* upstream response.                                                       *)

NoContent == [title |-> << >>, body |-> None]

Raise(resp) == [raised |-> TRUE, error |-> resp, value |-> NoContent]
Return(v) == [raised |-> FALSE, error |-> NoResponse, value |-> v]

\* faulty variant: every upstream failure reported as 500
LlmErrorAlways500(resp) == HTTPException(500, <<"LLM Error: ", resp.text>>)

\* if response.status_code != 200: raise HTTPException(...)
LlmError(resp) == HTTPException(resp.status, <<"LLM Error: ", resp.text>>)

\* the provider == "gpt" branch, given the response to the POST
GptContent(model, resp) ==
    IF resp.status # 200 THEN Raise(LlmError(resp))
    ELSE IF ~IsJson(resp.text) THEN Raise(Unhandled("JSONDecodeError"))
    ELSE IF PathError(ParseJson(resp.text), GptPath) # ""
    THEN Raise(Unhandled(PathError(ParseJson(resp.text), GptPath)))
    ELSE Return([title |-> <<"Update: ", model, " generated PR">>,
                 body  |-> PathValue(ParseJson(resp.text), GptPath).v])

\* the provider == "gemini" branch: try ... except KeyError
GeminiContent(model, resp) ==
    IF resp.status # 200 THEN Raise(LlmError(resp))
    ELSE IF ~IsJson(resp.text) THEN Raise(Unhandled("JSONDecodeError"))
    ELSE IF PathError(ParseJson(resp.text), GeminiPath) = "KeyError"
    THEN Raise(HTTPException(500, <<"Gemini response parsing failed: ", resp.text>>))
    ELSE IF PathError(ParseJson(resp.text), GeminiPath) # ""
    THEN Raise(Unhandled(PathError(ParseJson(resp.text), GeminiPath)))
    ELSE Return([title |-> <<"Automated PR by Gemini">>,
                 body  |-> PathValue(ParseJson(resp.text), GeminiPath).v])

\* the providers for which generate_pr_content posts to an endpoint
Dispatches(provider) == provider = "gpt" \/ provider = "gemini"

generate_pr_content(provider, model, resp) ==
    IF provider = "gpt" THEN GptContent(model, resp)
    ELSE IF provider = "gemini" THEN GeminiContent(model, resp)
    ELSE Raise(HTTPException(400, <<"Unsupported LLM provider">>))

\* faulty variant: the upstream body left out of the detail
GithubErrorWithoutBody(resp) == HTTPException(resp.status, <<"GitHub Error">>)

\* raise HTTPException(status_code=response.status_code, detail=f"GitHub Error: ...")
GithubError(resp) == HTTPException(resp.status, <<"GitHub Error: ", resp.text>>)

\* create_github_pull_request followed by the endpoint's return statement
create_github_pull_request(resp) ==
    IF resp.status = 201
    THEN IF ~IsJson(resp.text) THEN Unhandled("JSONDecodeError")
         ELSE IF ParseJson(resp.text).t # "obj" THEN Unhandled("AttributeError")
         ELSE Returned([status    |-> "success",
                        pr_url    |-> DictGet(ParseJson(resp.text), "html_url"),
                        pr_number |-> DictGet(ParseJson(resp.text), "number")])
    ELSE GithubError(resp)

\* generated_content = generate_pr_content(...)
GeneratePrContent(t) ==
    /\ pc[t] = "generate"
    /\ IF Dispatches(request[t].llm_provider)
       THEN \E resp \in LlmResponses :
              LET out == generate_pr_content(request[t].llm_provider,
                                             request[t].llm_model, resp)
              IN  /\ Record(t, "POST llm", NoCommit, resp.status, resp.text)
                  /\ IF out.raised
                     THEN /\ Respond(t, out.error)
                          /\ UNCHANGED generated_content
                     ELSE /\ generated_content' =
                               [generated_content EXCEPT ![t] = out.value]
                          /\ Goto(t, "publish")
       ELSE /\ Respond(t, generate_pr_content(request[t].llm_provider,
                                              request[t].llm_model,
                                              [status |-> 0, text |-> ""]).error)
            /\ UNCHANGED <<calls, generated_content>>
    /\ UNCHANGED <<environ, repo, HEAD, body, request, local_branch, target_commit,
                   changes_diff, commit_summary, git_data, overlapped>>

\* pr_result = create_github_pull_request(...); return {...}
CreateGithubPullRequest(t) ==
    /\ pc[t] = "publish"
    /\ \E resp \in GithubResponses :
         /\ Record(t, "POST github", NoCommit, resp.status, resp.text)
         /\ Respond(t, create_github_pull_request(resp))
    /\ UNCHANGED <<environ, repo, HEAD, body, request, local_branch, target_commit,
                   changes_diff, commit_summary, git_data,
                   generated_content, overlapped>>

Next ==
    \E t \in Threads :
        \/ Receive(t)
        \/ GitFetch(t)
        \/ GitCheckout(t)
        \/ GitRevList(t)
        \/ GitDiff(t)
        \/ GitLog(t)
        \/ GitDiffStat(t)
        \/ GeneratePrContent(t)
        \/ CreateGithubPullRequest(t)

-----------------------------------------------------------------------------
(* Initial states: the environment, the repository and the requests sent.   *)

Body(branch, base, n, provider, model) ==
    [sent |-> TRUE, branch |-> branch, base_branch |-> base, n_commits |-> n,
     llm_provider |-> provider, llm_model |-> model]

Env(provider, model) == [LLM_PROVIDER |-> provider, LLM_MODEL |-> model]

Scenario(env, r, head, b1, b2) ==
    [environ |-> env, repo |-> r, HEAD |-> head, body |-> ("t1" :> b1) @@ ("t2" :> b2)]

InitFrom(scenarios) ==
    /\ \E s \in scenarios :
         /\ environ = s.environ
         /\ repo = s.repo
         /\ HEAD = s.HEAD
         /\ body = s.body
    /\ pc = [t \in Threads |-> "idle"]
    /\ request = [t \in Threads |-> NoRequest]
    /\ local_branch = [t \in Threads |-> << >>]
    /\ target_commit = [t \in Threads |-> NoCommit]
    /\ changes_diff = [t \in Threads |-> << >>]
    /\ commit_summary = [t \in Threads |-> << >>]
    /\ git_data = [t \in Threads |-> << >>]
    /\ generated_content = [t \in Threads |-> NoContent]
    /\ response = [t \in Threads |-> NoResponse]
    /\ calls = [t \in Threads |-> << >>]
    /\ overlapped = [t \in Threads |-> FALSE]

Counts(max) == {NoCount} \cup (0..max)

\* one request; histories of every depth against every commit count
HistoryScenarios ==
    {Scenario(Env("", ""), MkRepo(mA, 1, orphan, 1, "ascii"), Dev,
              Body(branch, Dev, n, "gpt", "gpt-4o"), NoBody) :
        mA \in 0..MaxAhead, orphan \in BOOLEAN, n \in Counts(MaxN),
        branch \in {FeatureA, Remote(FeatureA)}}

\* one request; every provider in the body against every provider default
ProviderScenarios ==
    {Scenario(Env(envProvider, envModel), MkRepo(2, 1, FALSE, 2, "utf8"), Dev,
              Body(FeatureA, Dev, 1, provider, model), NoBody) :
        envProvider \in {"", "gpt", "gemini", "claude"}, envModel \in {"", "gpt-4o"},
        provider \in {Absent, "gpt", "gemini", "claude"}, model \in {Absent, "o3"}}

\* one request; every branch against every base and every kind of patch
BranchScenarios ==
    {Scenario(Env("gemini", ""), MkRepo(2, 1, orphan, len, kind), head,
              Body(branch, base, n, Absent, Absent), NoBody) :
        orphan \in BOOLEAN, len \in 0..2, kind \in {"ascii", "utf8", "latin1"},
        head \in {Dev, FeatureB},
        branch \in {FeatureA, FeatureB, Dev, Remote(FeatureB), Missing, Remote(Missing)},
        base \in {Dev, FeatureB, Missing}, n \in 1..2}

Init == InitFrom(HistoryScenarios \cup ProviderScenarios \cup BranchScenarios)

Spec == Init /\ [][Next]_vars

\* one request; diffs around the truncation limit
HalfLimit == DIFF_LIMIT \div 2
ContextScenarios ==
    {Scenario(Env("gpt", ""), MkRepo(mA, 0, FALSE, len, kind), Dev,
              Body(FeatureA, Dev, n, provider, Absent), NoBody) :
        mA \in 1..CtxAhead, len \in {1, HalfLimit, HalfLimit + 1, DIFF_LIMIT, DIFF_LIMIT + 1},
        kind \in {"ascii", "utf8"}, n \in 1..CtxAhead, provider \in {Absent, "gemini"}}

InitCtx == InitFrom(ContextScenarios)

SpecCtx == InitCtx /\ [][Next]_vars

\* two requests for different branches against the same checkout
ConcurrentScenarios ==
    {Scenario(Env("gpt", ""), MkRepo(mA, mB, FALSE, 1, "ascii"), head,
              Body(FeatureA, Dev, n, Absent, Absent),
              Body(Remote(FeatureB), Dev, n, "gemini", Absent)) :
        mA \in 1..ConcAhead, mB \in 0..ConcAhead, head \in {Dev, FeatureB},
        n \in {1, ConcN}}

InitConc == InitFrom(ConcurrentScenarios)

SpecConc == InitConc /\ [][Next]_vars

-----------------------------------------------------------------------------
(* Properties.                                                              *)

Done(t) == pc[t] = "done"
Failure(t) == Done(t) /\ response[t].kind # "return"
CallsOf(t, cmd) == {i \in 1..Len(calls[t]) : calls[t][i].cmd = cmd}
Made(t, cmd) == CallsOf(t, cmd) # {}
LastCall(t) == calls[t][Len(calls[t])]

NetworkCalls == {"git fetch origin", "POST llm", "POST github"}

\* the provider the request names: the body's, else the environment's
EffectiveProvider(t) ==
    IF body[t].llm_provider # Absent THEN body[t].llm_provider
    ELSE environ["LLM_PROVIDER"]

\* C1: a request whose effective llm_provider (body, else LLM_PROVIDER) is
\* neither "gemini" nor "gpt" makes no network call (git fetch origin, the
\* LLM POST, the GitHub POST) and never returns a pull request.
C1_UnsupportedProviderRejectedBeforeNetwork ==
    \A t \in Threads :
        (body[t].sent /\ EffectiveProvider(t) \notin LlmProviders) =>
            /\ \A i \in 1..Len(calls[t]) : calls[t][i].cmd \notin NetworkCalls
            /\ Done(t) => response[t].kind # "return"

\* the path generate_pr_content reads for a provider
ExpectedPath(provider) == IF provider = "gpt" THEN GptPath ELSE GeminiPath

\* a 200 answer whose JSON body lacks the fields the provider's path reads
LacksFields(t) ==
    /\ Done(t) /\ calls[t] # << >>
    /\ LastCall(t).cmd = "POST llm"
    /\ LastCall(t).status = 200
    /\ IsJson(LastCall(t).text)
    /\ PathError(ParseJson(LastCall(t).text), ExpectedPath(request[t].llm_provider)) # ""

\* C2: for both providers, a 200 answer of the language-model endpoint with
\* a JSON body lacking the expected fields ends the request with an
\* HTTPException carrying a detail, never with an unhandled exception.
C2_MissingFieldsReportedAsHTTPException ==
    \A t \in Threads :
        LacksFields(t) =>
            /\ response[t].kind = "HTTPException"
            /\ response[t].detail # << >>

\* C3: every failed request reaches the caller with a 4xx or 5xx status.
C3_FailuresCarryErrorStatus ==
    \A t \in Threads :
        Failure(t) => response[t].status \in 400..599

\* C4: for both providers, an answer of the language-model endpoint with a
\* status outside 200..299 ends the request with an HTTPException of that
\* same status, and the GitHub POST is not made.
C4_LlmErrorStatusPassedThrough ==
    \A t \in Threads :
        \A i \in CallsOf(t, "POST llm") :
            calls[t][i].status \notin 200..299 =>
                /\ Done(t)
                /\ response[t].kind = "HTTPException"
                /\ response[t].status = calls[t][i].status
                /\ ~Made(t, "POST github")

C4_Witness ==
    \E t \in Threads :
        /\ Made(t, "POST llm")
        /\ LastCall(t).status = 503
        /\ request[t].llm_provider = "gemini"
        /\ response[t].status = 503

\* C5: a hosting-service answer whose status is not 201 ends the request
\* with an HTTPException whose detail holds the upstream body text
\* unchanged; the success payload is returned only after a 201.
C5_GithubErrorEmbedsBody ==
    \A t \in Threads :
        /\ \A i \in CallsOf(t, "POST github") :
              calls[t][i].status # 201 =>
                  /\ response[t].kind = "HTTPException"
                  /\ calls[t][i].text \in Range(response[t].detail)
                  /\ response[t].payload = NoPayload
        /\ response[t].kind = "return" =>
              /\ response[t].payload.status = "success"
              /\ \E i \in CallsOf(t, "POST github") : calls[t][i].status = 201

C5_Witness ==
    \E t \in Threads :
        /\ Made(t, "POST github")
        /\ LastCall(t).status = 422
        /\ LastCall(t).text = "Not Found"
        /\ response[t].kind = "HTTPException"

\* the position of a literal part in a Change Context
LiteralAt(ctx, lit) == CHOOSE i \in 1..Len(ctx) : ctx[i] = Literal(lit)

SummarySection(ctx) ==
    SubSeq(ctx, 2, LiteralAt(ctx, "\n\n=== CHANGES STAT ===\n") - 1)
StatSection(ctx) ==
    SubSeq(ctx, LiteralAt(ctx, "\n\n=== CHANGES STAT ===\n") + 1,
                LiteralAt(ctx, "\n\n=== GIT DIFF (Detail) ===\n") - 1)
DiffSection(ctx) ==
    SubSeq(ctx, LiteralAt(ctx, "\n\n=== GIT DIFF (Detail) ===\n") + 1, Len(ctx) - 1)

\* run_git_commands returned a Change Context to the request
HasContext(t) == git_data[t] # << >>

\* what a command of the request printed, decoded, read back from the log
\* of calls
TheCall(t, cmd) == calls[t][CHOOSE i \in CallsOf(t, cmd) : TRUE]
DiffText(t) ==
    Decode(GitDiffCmd(repo, TheCall(t, "git diff").rev, TheCall(t, "git diff").head, TRUE).out)
StatText(t) ==
    Decode(GitDiffStatCmd(repo, TheCall(t, "git diff --stat").rev,
                          TheCall(t, "git diff --stat").head, TRUE).out)
LogText(t) ==
    Decode(GitLogCmd(repo, request[t].base_branch, TheCall(t, "git log").head,
                     request[t].n_commits, TRUE).out)

\* C6: in every Change Context run_git_commands returns, the diff section
\* is the first characters of the diff, at most 10000 of them, and the
\* commit summary and diff-stat sections hold the whole output.
C6_DiffSectionBounded ==
    \A t \in Threads :
        HasContext(t) =>
            /\ Len(DiffSection(git_data[t])) <= 10000
            /\ DiffSection(git_data[t]) =
                 SubSeq(DiffText(t), 1, Len(DiffSection(git_data[t])))
            /\ Len(DiffText(t)) <= 10000 => DiffSection(git_data[t]) = DiffText(t)
            /\ SummarySection(git_data[t]) = LogText(t)
            /\ StatSection(git_data[t]) = StatText(t)

C6_Witness ==
    \E t \in Threads :
        /\ HasContext(t)
        /\ Len(DiffText(t)) > 10000
        /\ Len(DiffSection(git_data[t])) = 10000

\* the commits base..branch of a request, oldest first (c1..cM)
AheadOf(t) ==
    Ordered(Ancestors(repo, repo.tips[StripOrigin(request[t].branch)])
            \ Ancestors(repo, repo.tips[request[t].base_branch]))

\* the commits a diff command of the log of calls ran over
Covered(call) == DiffCommits(repo, FirstParent(repo, call.rev), repo.tips[call.head])

\* the commits a text speaks of
CommitsIn(text) == {text[i].c : i \in 1..Len(text)} \ {NoCommit}

\* C7: with c1..cM the commits of the branch beyond base and n the commit
\* count, the anchor is c_k for k = max(1, M - n + 1); the diff and the diff
\* stat run from the anchor's parent to HEAD and cover the min(n, M) commits
\* the commit summary lists.
C7_AnchorIsOldestOfNewestN ==
    \A t \in Threads :
        LET n == request[t].n_commits
            M == Len(AheadOf(t))
        IN  /\ (target_commit[t] # NoCommit /\ ~overlapped[t]) =>
                 /\ M >= 1 /\ n >= 1
                 /\ target_commit[t] = AheadOf(t)[Max(1, M - n + 1)]
            /\ (pc[t] = "stat" /\ ~overlapped[t]) =>
                 /\ TheCall(t, "git diff").rev = target_commit[t]
                 /\ CommitsIn(changes_diff[t]) \subseteq Covered(TheCall(t, "git diff"))
                 /\ \A c \in Covered(TheCall(t, "git diff")) :
                       repo.patch[c].len > 0 => c \in CommitsIn(changes_diff[t])
                 /\ Covered(TheCall(t, "git diff")) = CommitsIn(commit_summary[t])
                 /\ Cardinality(CommitsIn(commit_summary[t])) = Min(n, M)
            /\ (HasContext(t) /\ ~overlapped[t]) =>
                 /\ TheCall(t, "git diff --stat").rev = target_commit[t]
                 /\ Covered(TheCall(t, "git diff --stat")) = Covered(TheCall(t, "git diff"))
                 /\ Covered(TheCall(t, "git diff")) =
                       {AheadOf(t)[i] : i \in Max(1, M - n + 1)..M}
                 /\ CommitsIn(SummarySection(git_data[t])) = Covered(TheCall(t, "git diff"))
                 /\ CommitsIn(DiffSection(git_data[t])) \subseteq Covered(TheCall(t, "git diff"))

\* 20 commits ahead of dev and the default count of 14: the anchor is the
\* 7th-oldest commit
C7_Witness ==
    \E t \in Threads :
        /\ HasContext(t)
        /\ Len(AheadOf(t)) = 20
        /\ request[t].n_commits = 14
        /\ target_commit[t] = AheadOf(t)[7]
        /\ Cardinality(CommitsIn(DiffSection(git_data[t]))) = 14

\* the external calls of one request, in the order the code makes them
Pipeline ==
    <<"git fetch origin", "git checkout", "git rev-list", "git diff", "git log",
      "git diff --stat", "POST llm", "POST github">>
GitCommands == {Pipeline[i] : i \in 1..6}
Cmds(t) == [i \in 1..Len(calls[t]) |-> calls[t][i].cmd]

\* the call let the request go on: exit status 0, or 200 from the model
WentOn(call) == IF call.cmd \in GitCommands THEN call.status = 0 ELSE call.status = 200

\* C8: the calls of a request are a prefix of fetch, checkout, rev-list,
\* diff, log, diff-stat, LLM POST, GitHub POST, each made at most once; the
\* LLM POST follows a returned Change Context, the GitHub POST a returned
\* title and body; no call follows a failed one; the request returns only
\* with all three stages done.
C8_StagesInOrderOnce ==
    \A t \in Threads :
        /\ Len(calls[t]) <= Len(Pipeline)
        /\ Cmds(t) = SubSeq(Pipeline, 1, Len(calls[t]))
        /\ \A i \in 1..(Len(calls[t]) - 1) : WentOn(calls[t][i])
        /\ Made(t, "POST llm") => HasContext(t)
        /\ Made(t, "POST github") =>
              /\ generated_content[t] # NoContent
              /\ TheCall(t, "POST llm").status = 200
        /\ ~Done(t) => response[t] = NoResponse
        /\ (Done(t) /\ response[t].kind = "return") =>
              /\ HasContext(t)
              /\ generated_content[t] # NoContent
              /\ Made(t, "POST github")
        /\ (Done(t) /\ Len(calls[t]) < Len(Pipeline)) => Failure(t)

C8_Witness ==
    \E t \in Threads :
        /\ Done(t)
        /\ response[t].kind = "return"
        /\ Len(calls[t]) = Len(Pipeline)

\* the range base..HEAD a rev-list call listed is empty
EmptyRange(t, call) ==
    /\ request[t].base_branch \in DOMAIN repo.tips
    /\ Ancestors(repo, repo.tips[call.head])
         \ Ancestors(repo, repo.tips[request[t].base_branch]) = {}

\* the request ended with HTTP 500 and no Change Context
Failed500(t) ==
    /\ Done(t)
    /\ response[t].kind = "HTTPException"
    /\ response[t].status = 500
    /\ ~HasContext(t)
    /\ ~Made(t, "POST llm")

\* C9: a Change Context is returned only when all six commands succeeded
\* and the listing gave an anchor; a failed command (the listing inside the
\* pipeline and an anchor without parent included), an empty range or a
\* count of 0 ends the request with HTTP 500 and no Change Context; no
\* command runs twice.
C9_GitFailureIs500 ==
    \A t \in Threads :
        /\ HasContext(t) =>
              /\ \A i \in 1..6 : calls[t][i].cmd \in GitCommands /\ calls[t][i].status = 0
              /\ target_commit[t] # NoCommit
        /\ \A i \in 1..Len(calls[t]) :
              (calls[t][i].cmd \in GitCommands /\ calls[t][i].status # 0) =>
                  Failed500(t) /\ Len(calls[t]) = i
        /\ \A i \in CallsOf(t, "git rev-list") :
              (EmptyRange(t, calls[t][i]) \/ request[t].n_commits = 0) =>
                  Failed500(t) /\ Len(calls[t]) = i
        /\ \A i \in CallsOf(t, "git diff") :
              FirstParent(repo, calls[t][i].rev) = NoCommit => calls[t][i].status # 0
        /\ \A i, j \in 1..Len(calls[t]) : calls[t][i].cmd = calls[t][j].cmd => i = j

\* the listing fails inside the pipeline (the base names no branch)
C9_Witness ==
    \E t \in Threads :
        /\ request[t].base_branch = Missing
        /\ Made(t, "git rev-list")
        /\ LastCall(t).cmd = "git rev-list"
        /\ LastCall(t).status # 0
        /\ Failed500(t)

\* the anchor is a root commit: <anchor>^ names nothing
C9_OrphanAnchor ==
    \E t \in Threads :
        /\ Made(t, "git diff")
        /\ FirstParent(repo, target_commit[t]) = NoCommit
        /\ Failed500(t)

\* the commands that read the range base..HEAD
RangeCommands == {"git rev-list", "git diff", "git log", "git diff --stat"}

\* C10: a request that no other request overlapped ran its rev-list, diff,
\* log and diff-stat with HEAD on its own branch ("origin/" stripped); a
\* request that ran one of them on another branch was overlapped, and such
\* a request is reachable.
C10_SerialRequestsReadOwnBranch ==
    \A t \in Threads :
        \A i \in 1..Len(calls[t]) :
            (calls[t][i].cmd \in RangeCommands /\ ~overlapped[t]) =>
                calls[t][i].head = StripOrigin(request[t].branch)

\* the race: a pull request for feature-a is published from a Change
\* Context read entirely while HEAD was feature-b
C10_Witness ==
    \E t \in Threads :
        /\ Done(t)
        /\ response[t].kind = "return"
        /\ request[t].branch = FeatureA
        /\ overlapped[t]
        /\ \A i \in 1..Len(calls[t]) :
              calls[t][i].cmd \in RangeCommands => calls[t][i].head = FeatureB
        /\ CommitsIn(SummarySection(git_data[t])) \subseteq BranchCommits(200, ConcAhead)
        /\ CommitsIn(SummarySection(git_data[t])) # {}

====
